---- MODULE Spec2Model ----
(***************************************************************************)
(* asyncpg_vector: the binary codec between Python float sequences and the *)
(* pgvector wire formats `vector`, `halfvec` and `sparsevec`.              *)
(*                                                                         *)
(* Representation of Python values                                         *)
(*   bytes      a sequence of integers 0..255                              *)
(*   float      [type |-> "float", cls, neg, sig, ex], the number          *)
(*              (-1)^neg * sig * 2^ex with sig odd (or sig = 0, ex = 0);   *)
(*              cls is "finite", "inf" or "nan"; for a NaN sig is the      *)
(*              upper 23 bits of the fraction of the double (the bits a    *)
(*              conversion to single precision keeps) and ex = 0           *)
(*   int        [type |-> "int", val]                                      *)
(*   str        [type |-> "str", chars] (a sequence of 1-character strings)*)
(*   list/tuple [type |-> "list" or "tuple", items]                        *)
(*   None       [type |-> "NoneType"]                                      *)
(*   vectors    [type |-> "Vector" or "HalfVector", _data]                 *)
(*              [type |-> "SparseVector", _size, _indices, _values]        *)
(* The outcome of a call is [raised |-> "" , value |-> v] when it returns  *)
(* v and [raised |-> <exception name>, value |-> None] when it raises.     *)
(***************************************************************************)
EXTENDS Integers, Sequences, FiniteSets, TLC

(***************************************************************************)
(* Outcomes and small helpers                                              *)
(***************************************************************************)
None == [type |-> "NoneType"]

Ok(v) == [raised |-> "", value |-> v]

Raise(e) == [raised |-> e, value |-> None]

IsOk(r) == r.raised = ""

RECURSIVE Pow2(_)
Pow2(n) == IF n <= 0 THEN 1 ELSE 2 * Pow2(n - 1)

\* int.bit_length() of a natural number
RECURSIVE BitLen(_)
BitLen(n) == IF n = 0 THEN 0 ELSE 1 + BitLen(n \div 2)

\* data[lo:hi] of Python (0-based, half-open, negative bounds count from the end)
ClampIndex(i, n) == IF i < 0 THEN (IF i + n < 0 THEN 0 ELSE i + n) ELSE (IF i > n THEN n ELSE i)

Slice(data, lo, hi) ==
    LET n == Len(data)
        a == ClampIndex(lo, n)
        b == ClampIndex(hi, n)
    IN  IF a >= b THEN <<>> ELSE SubSeq(data, a + 1, b)

\* data[lo:]
SliceFrom(data, lo) == Slice(data, ClampIndex(lo, Len(data)), Len(data))

RECURSIVE Concat(_)
Concat(chunks) == IF chunks = <<>> THEN <<>> ELSE Head(chunks) \o Concat(Tail(chunks))

(***************************************************************************)
(* struct: big-endian integers                                             *)
(***************************************************************************)
\* struct format "H": range of an unsigned 16-bit field
U16Max == 65535

\* struct format "i": a signed 32-bit field; 2^31 itself is beyond the model's integers
I32Max == 2147483647

InRangeU16(n) == n >= 0 /\ n <= U16Max

InRangeI32(n) == n >= -I32Max - 1 /\ n <= I32Max

\* pack(">H", n), n in range
BytesU16(n) == <<n \div 256, n % 256>>

\* unpack(">H", b)
IntU16(b) == b[1] * 256 + b[2]

\* pack(">i", n), n in range (two's complement)
BytesI32(n) ==
    LET top == n \div 16777216
        lo  == n % 16777216
    IN  <<top % 256, lo \div 65536, (lo \div 256) % 256, lo % 256>>

\* unpack(">i", b)
IntI32(b) == (IF b[1] >= 128 THEN b[1] - 256 ELSE b[1]) * 16777216 + b[2] * 65536 + b[3] * 256 + b[4]

(***************************************************************************)
(* struct: IEEE-754 binary32 ("f") and binary16 ("e")                      *)
(***************************************************************************)
\* [bytes, man, bias]: width in bytes, stored significand bits, exponent bias
Binary32 == [bytes |-> 4, man |-> 23, bias |-> 127]

Binary16 == [bytes |-> 2, man |-> 10, bias |-> 15]

ExpFieldMax(fmt) == 2 * fmt.bias + 1

EMin(fmt) == 1 - fmt.bias

Float(cls, neg, sig, ex) == [type |-> "float", cls |-> cls, neg |-> neg, sig |-> sig, ex |-> ex]

\* the canonical (odd significand) form of sig * 2^ex
RECURSIVE Normalise(_, _, _)
Normalise(neg, sig, ex) ==
    IF sig = 0 THEN Float("finite", neg, 0, 0)
    ELSE IF sig % 2 = 0 THEN Normalise(neg, sig \div 2, ex + 1)
    ELSE Float("finite", neg, sig, ex)

\* float(n) for a Python int n
IntToFloat(n) == Normalise(n < 0, IF n < 0 THEN -n ELSE n, 0)

\* Python's == on two floats
FloatEq(a, b) ==
    /\ a.cls # "nan" /\ b.cls # "nan"
    /\ \/ a = b
       \/ a.cls = "finite" /\ b.cls = "finite" /\ a.sig = 0 /\ b.sig = 0

\* Python's value != 0 on a float
FloatNonZero(a) == ~(a.cls = "finite" /\ a.sig = 0)

\* sig / 2^shift rounded to the nearest integer, ties to even (sig < 2^30)
RoundShift(sig, shift) ==
    IF shift <= 0 THEN sig
    ELSE IF shift > 30 THEN 0
    ELSE LET d == Pow2(shift)
             q == sig \div d
             r == sig % d
             half == d \div 2
         IN  IF r > half \/ (r = half /\ q % 2 = 1) THEN q + 1 ELSE q

\* The fields of a finite non-zero magnitude that is `big` quanta, the quantum
\* being 2^(top - man) for a normal and 2^(EMin - man) for a subnormal result;
\* OverflowError when the rounded magnitude does not fit the format.
IeeeEncode(s, top, big, fmt) ==
    IF top >= EMin(fmt)
      THEN IF top + fmt.bias + (IF big = Pow2(fmt.man + 1) THEN 1 ELSE 0) >= ExpFieldMax(fmt)
             THEN Raise("OverflowError")
             ELSE Ok([s |-> s,
                      e |-> top + fmt.bias + (IF big = Pow2(fmt.man + 1) THEN 1 ELSE 0),
                      m |-> big % Pow2(fmt.man)])
      ELSE Ok([s |-> s, e |-> IF big >= Pow2(fmt.man) THEN 1 ELSE 0, m |-> big % Pow2(fmt.man)])

\* x in quanta of 2^q, rounded to nearest, ties to even
Quanta(x, q) == IF x.ex >= q THEN x.sig * Pow2(x.ex - q) ELSE RoundShift(x.sig, q - x.ex)

\* a finite non-zero x with 2^top <= |x| < 2^(top+1)
IeeeFinite(x, top, fmt) ==
    IeeeEncode(IF x.neg THEN 1 ELSE 0, top,
               Quanta(x, (IF top >= EMin(fmt) THEN top ELSE EMin(fmt)) - fmt.man), fmt)

\* The fraction field of a NaN narrowed to fmt.  "f" is the C conversion
\* (float)x, which keeps the upper 23 fraction bits and sets the quiet bit;
\* "e" always writes the quiet bit alone.
NanFraction(x, fmt) ==
    IF fmt.man = 23 THEN Pow2(22) + (x.sig % Pow2(22)) ELSE Pow2(fmt.man - 1)

\* The sign, exponent and significand fields of x narrowed to fmt
IeeeFields(x, fmt) ==
    IF x.cls = "inf" THEN Ok([s |-> IF x.neg THEN 1 ELSE 0, e |-> ExpFieldMax(fmt), m |-> 0])
    ELSE IF x.cls = "nan"
      THEN Ok([s |-> IF x.neg THEN 1 ELSE 0, e |-> ExpFieldMax(fmt), m |-> NanFraction(x, fmt)])
    ELSE IF x.sig = 0 THEN Ok([s |-> IF x.neg THEN 1 ELSE 0, e |-> 0, m |-> 0])
    ELSE IeeeFinite(x, x.ex + BitLen(x.sig) - 1, fmt)

\* the big-endian bytes of the fields
FieldBytes(f, fmt) ==
    IF fmt.bytes = 4
      THEN <<f.s * 128 + f.e \div 2, (f.e % 2) * 128 + f.m \div 65536, (f.m \div 256) % 256, f.m % 256>>
      ELSE <<f.s * 128 + f.e * 4 + f.m \div 256, f.m % 256>>

\* the fields of big-endian bytes
BytesFields(b, fmt) ==
    IF fmt.bytes = 4
      THEN [s |-> b[1] \div 128, e |-> (b[1] % 128) * 2 + b[2] \div 128,
            m |-> (b[2] % 128) * 65536 + b[3] * 256 + b[4]]
      ELSE [s |-> b[1] \div 128, e |-> (b[1] % 128) \div 4, m |-> (b[1] % 4) * 256 + b[2]]

\* The NaN a field triple denotes.  "f" is the C conversion (double)x, which
\* keeps the fraction and sets the quiet bit; "e" gives the default NaN with
\* the sign of the field.
FieldsNan(f, fmt) ==
    Float("nan", f.s = 1, IF fmt.man = 23 THEN Pow2(22) + (f.m % Pow2(22)) ELSE Pow2(22), 0)

\* the float a field triple denotes (widened to double precision, exactly)
FieldsFloat(f, fmt) ==
    IF f.e = ExpFieldMax(fmt)
      THEN (IF f.m = 0 THEN Float("inf", f.s = 1, 0, 0) ELSE FieldsNan(f, fmt))
    ELSE IF f.e = 0 THEN Normalise(f.s = 1, f.m, EMin(fmt) - fmt.man)
    ELSE Normalise(f.s = 1, Pow2(fmt.man) + f.m, f.e - fmt.bias - fmt.man)

Reverse(b) == [i \in 1..Len(b) |-> b[Len(b) + 1 - i]]

\* The bytes of one item in byte order `order`: ">" is the struct prefix of
\* the wire format (standard mode, big-endian); "big" and "little" are struct's
\* native mode (no prefix) on a host of that byte order.
Ordered(b, order) == IF order \in {">", "big"} THEN b ELSE Reverse(b)

\* an argument of a float format: a float, or an int converted to one;
\* anything else is "required argument is not a float"
AsFloat(item) ==
    IF item.type = "float" THEN Ok(item)
    ELSE IF item.type = "int" THEN Ok(IntToFloat(item.val))
    ELSE Raise("struct.error")

\* the bytes of the fields, when narrowing gave fields
PackFields(f, fmt, order) ==
    IF ~IsOk(f) THEN f ELSE Ok(Ordered(FieldBytes(f.value, fmt), order))

\* Native mode packs "f" with the plain C conversion (float)x, which has no
\* range check: a magnitude too large for the format becomes an infinity.
\* Standard mode, and "e" in both modes, raise OverflowError.
NativeCast(x, f, fmt, order) ==
    IF order # ">" /\ fmt.man = 23 /\ f.raised = "OverflowError"
      THEN Ok([s |-> IF x.neg THEN 1 ELSE 0, e |-> ExpFieldMax(fmt), m |-> 0])
      ELSE f

\* The bytes of an argument converted to a C double, when it converted: the
\* narrowing of the double itself, whose OverflowError is what pack raises
\* for a float argument (PackOutcome gives what it raises for an int).
PackDouble(arg, fmt, order) ==
    IF ~IsOk(arg) THEN arg
    ELSE PackFields(NativeCast(arg.value, IeeeFields(arg.value, fmt), fmt, order), fmt, order)

\* what pack raises for an item: the packer's OverflowError for an int
\* argument is replaced by struct.error ("int too large to convert")
PackOutcome(item, packed) ==
    IF item.type = "int" /\ packed.raised = "OverflowError" THEN Raise("struct.error")
    ELSE packed

\* pack of one float
PackFloat(item, fmt, order) == PackOutcome(item, PackDouble(AsFloat(item), fmt, order))

\* the packed items joined, or what the first argument that fails raises
JoinPacked(parts) ==
    IF \E i \in 1..Len(parts) : ~IsOk(parts[i])
      THEN parts[CHOOSE i \in 1..Len(parts) :
                    ~IsOk(parts[i]) /\ \A j \in 1..(i - 1) : IsOk(parts[j])]
      ELSE Ok(Concat([i \in 1..Len(parts) |-> parts[i].value]))

\* pack(f"{order}{len(items)}{fmt}", *items)
PackFloats(items, fmt, order) ==
    JoinPacked([i \in 1..Len(items) |-> PackFloat(items[i], fmt, order)])

\* unpack(f"{order}{count}{fmt}", data): the buffer must hold exactly count items
UnpackFloats(count, data, fmt, order) ==
    IF count < 0 \/ Len(data) # count * fmt.bytes THEN Raise("struct.error")
    ELSE Ok([i \in 1..count |->
               FieldsFloat(BytesFields(Ordered(SubSeq(data, (i - 1) * fmt.bytes + 1, i * fmt.bytes), order), fmt), fmt)])

\* pack(f">{len(items)}i", *items) for Python ints
PackInts(items) ==
    IF \E i \in 1..Len(items) : ~InRangeI32(items[i]) THEN Raise("struct.error")
    ELSE Ok(Concat([i \in 1..Len(items) |-> BytesI32(items[i])]))

\* unpack(f">{count}i", data)
UnpackInts(count, data) ==
    IF count < 0 \/ Len(data) # count * 4 THEN Raise("struct.error")
    ELSE Ok([i \in 1..count |-> IntI32(SubSeq(data, (i - 1) * 4 + 1, i * 4))])

(***************************************************************************)
(* base64                                                                  *)
(***************************************************************************)
B64Alphabet ==
    <<"A", "B", "C", "D", "E", "F", "G", "H", "I", "J", "K", "L", "M", "N", "O", "P",
      "Q", "R", "S", "T", "U", "V", "W", "X", "Y", "Z", "a", "b", "c", "d", "e", "f",
      "g", "h", "i", "j", "k", "l", "m", "n", "o", "p", "q", "r", "s", "t", "u", "v",
      "w", "x", "y", "z", "0", "1", "2", "3", "4", "5", "6", "7", "8", "9", "+", "/">>

B64Char(v) == B64Alphabet[v + 1]

B64Value(c) == (CHOOSE i \in 1..64 : B64Alphabet[i] = c) - 1

\* base64.b64encode(b).decode(): the text a caller hands to from_float_base64
RECURSIVE B64Encode(_)
B64Encode(b) ==
    IF Len(b) = 0 THEN <<>>
    ELSE IF Len(b) = 1
      THEN <<B64Char(b[1] \div 4), B64Char((b[1] % 4) * 16), "=", "=">>
    ELSE IF Len(b) = 2
      THEN <<B64Char(b[1] \div 4), B64Char((b[1] % 4) * 16 + b[2] \div 16),
             B64Char((b[2] % 16) * 4), "=">>
    ELSE <<B64Char(b[1] \div 4), B64Char((b[1] % 4) * 16 + b[2] \div 16),
           B64Char((b[2] % 16) * 4 + b[3] \div 64), B64Char(b[3] % 64)>>
         \o B64Encode(SubSeq(b, 4, Len(b)))

\* the number of leading characters of chars that are not padding
RECURSIVE DataLen(_)
DataLen(chars) == IF chars = <<>> \/ Head(chars) = "=" THEN 0 ELSE 1 + DataLen(Tail(chars))

\* the bytes of a run of sextets
RECURSIVE SextetBytes(_)
SextetBytes(v) ==
    IF Len(v) < 2 THEN <<>>
    ELSE IF Len(v) = 2 THEN <<v[1] * 4 + v[2] \div 16>>
    ELSE IF Len(v) = 3 THEN <<v[1] * 4 + v[2] \div 16, (v[2] % 16) * 16 + v[3] \div 4>>
    ELSE <<v[1] * 4 + v[2] \div 16, (v[2] % 16) * 16 + v[3] \div 4, (v[3] % 4) * 64 + v[4]>>
         \o SextetBytes(SubSeq(v, 5, Len(v)))

\* the bytes of a text whose first n characters are data and whose rest is padding
DecodeData(chars, n) ==
    IF n % 4 = 1 \/ (n % 4 # 0 /\ Len(chars) - n < 4 - (n % 4)) THEN Raise("binascii.Error")
    ELSE Ok(SextetBytes([i \in 1..n |-> B64Value(chars[i])]))

\* base64.b64decode(text) for a text of alphabet characters followed by padding
b64decode(chars) == DecodeData(chars, DataLen(chars))

(***************************************************************************)
(* Python values                                                           *)
(***************************************************************************)
Bytes(b) == [type |-> "bytes", b |-> b]

Str(chars) == [type |-> "str", chars |-> chars]

List(items) == [type |-> "list", items |-> items]

Tuple(items) == [type |-> "tuple", items |-> items]

PyInt(n) == [type |-> "int", val |-> n]

DenseKinds == {"Vector", "HalfVector"}

Kinds == DenseKinds \cup {"SparseVector"}

\* isinstance(value, BasicVector)
IsVector(value) == value.type \in Kinds

(***************************************************************************)
(* DenseVector, HalfVector, Vector                                         *)
(***************************************************************************)
\* bytes_per_item()
bytes_per_item(cls) == IF cls = "HalfVector" THEN 2 ELSE 4

\* the struct item format of the kind: "e" for HalfVector, "f" for Vector
ItemFormat(cls) == IF cls = "HalfVector" THEN Binary16 ELSE Binary32

\* DenseVector.__init__(data)
DenseVector_init(cls, data) ==
    IF data # None THEN Ok([type |-> cls, _data |-> data.b])
    ELSE Ok([type |-> cls, _data |-> <<>>])

\* DenseVector.size()
DenseVector_size(self) == Len(self._data) \div bytes_per_item(self.type)

\* DenseVector.to_database_binary()
DenseVector_to_database_binary(self) ==
    IF ~InRangeU16(DenseVector_size(self)) THEN Raise("struct.error")
    ELSE Ok(Bytes(BytesU16(DenseVector_size(self)) \o BytesU16(0) \o self._data))

\* DenseVector.from_database_binary accepting bytes after the declared items
DenseVector_from_database_binary_Lenient(cls, data) ==
    IF Len(Slice(data.b, 0, 4)) # 4 THEN Raise("struct.error")
    ELSE IF Len(data.b) < 4 + bytes_per_item(cls) * IntU16(SubSeq(data.b, 1, 2))
      THEN Raise("ValueError")
    ELSE DenseVector_init(cls, Bytes(SliceFrom(data.b, 4)))

\* DenseVector.from_database_binary(data)
DenseVector_from_database_binary(cls, data) ==
    LET header == Slice(data.b, 0, 4)
    IN  IF Len(header) # 4 THEN Raise("struct.error")
        ELSE LET size == IntU16(SubSeq(header, 1, 2))
             IN  IF Len(data.b) # 4 + bytes_per_item(cls) * size THEN Raise("ValueError")
                 ELSE DenseVector_init(cls, Bytes(SliceFrom(data.b, 4)))

\* list(unpack(...)), when unpack returned
ListOf(items) == IF ~IsOk(items) THEN items ELSE Ok(List(items.value))

\* HalfVector.to_float_list() and Vector.to_float_list()
DenseVector_to_float_list(self) ==
    ListOf(UnpackFloats(DenseVector_size(self), self._data, ItemFormat(self.type), ">"))

\* cls(buffer), when the expression for the buffer returned
DenseOf(cls, buffer) ==
    IF ~IsOk(buffer) THEN buffer ELSE DenseVector_init(cls, Bytes(buffer.value))

\* HalfVector.from_float_list(vec) and Vector.from_float_list(vec)
DenseVector_from_float_list(cls, vec) ==
    DenseOf(cls, PackFloats(vec.items, ItemFormat(cls), ">"))

\* Vector.from_float_base64(base64_encoded)
Vector_from_float_base64(cls, base64_encoded) ==
    DenseOf(cls, b64decode(base64_encoded.chars))

(***************************************************************************)
(* SparseVector                                                            *)
(***************************************************************************)
\* SparseVector.__init__ without the comparison of the two lengths
SparseVector_init_Unchecked(size, indices, values) ==
    IF size # None /\ indices # None /\ values # None
      THEN Ok([type |-> "SparseVector", _size |-> size.val,
               _indices |-> indices.b, _values |-> values.b])
    ELSE IF size = None /\ indices = None /\ values = None
      THEN Ok([type |-> "SparseVector", _size |-> 0, _indices |-> <<>>, _values |-> <<>>])
    ELSE Raise("ValueError")

\* SparseVector.__init__(size, indices, values)
SparseVector_init(size, indices, values) ==
    IF size # None /\ indices # None /\ values # None
      THEN IF Len(indices.b) # Len(values.b) THEN Raise("ValueError")
           ELSE Ok([type |-> "SparseVector", _size |-> size.val,
                    _indices |-> indices.b, _values |-> values.b])
    ELSE IF size = None /\ indices = None /\ values = None
      THEN Ok([type |-> "SparseVector", _size |-> 0, _indices |-> <<>>, _values |-> <<>>])
    ELSE Raise("ValueError")

\* SparseVector.size()
SparseVector_size(self) == self._size

\* SparseVector.nnz()
nnz(self) == Len(self._indices) \div 4

\* items[index] = value for each pair in turn; IndexError outside [-len, len)
RECURSIVE AssignAll(_, _, _)
AssignAll(items, indices, values) ==
    IF indices = <<>> THEN Ok(List(items))
    ELSE LET n == Len(items)
             index == Head(indices)
             at == IF index < 0 THEN index + n ELSE index
         IN  IF index >= n \/ index < -n THEN Raise("IndexError")
             ELSE AssignAll([items EXCEPT ![at + 1] = Head(values)], Tail(indices), Tail(values))

\* the zero list of length size with the unpacked pairs assigned
Scatter(size, indices, values) ==
    IF ~IsOk(indices) THEN indices
    ELSE IF ~IsOk(values) THEN values
    ELSE AssignAll([i \in 1..size |-> Float("finite", FALSE, 0, 0)], indices.value, values.value)

\* SparseVector.to_float_list()
SparseVector_to_float_list(self) ==
    Scatter(self._size, UnpackInts(nnz(self), self._indices),
            UnpackFloats(nnz(self), self._values, Binary32, ">"))

\* value != 0 for a list item
ItemNonZero(item) ==
    IF item.type = "float" THEN FloatNonZero(item)
    ELSE IF item.type = "int" THEN item.val # 0
    ELSE TRUE

\* [index for index, value in enumerate(vec) if value != 0], 0-based
RECURSIVE NonZeroIndices(_, _)
NonZeroIndices(items, from) ==
    IF from > Len(items) THEN <<>>
    ELSE (IF ItemNonZero(items[from]) THEN <<from - 1>> ELSE <<>>) \o NonZeroIndices(items, from + 1)

\* cls(size, indices, values), when both pack expressions returned
SparseOf(size, indices, values) ==
    IF ~IsOk(indices) THEN indices
    ELSE IF ~IsOk(values) THEN values
    ELSE SparseVector_init(PyInt(size), Bytes(indices.value), Bytes(values.value))

\* SparseOfEntries taking the number of entries for the dimensionality
SparseOfEntries_SizeIsCount(vec, indices) ==
    SparseOf(Len(indices), PackInts(indices),
             PackFloats([k \in 1..Len(indices) |-> vec.items[indices[k] + 1]], Binary32, ">"))

\* the vector of the entries of vec at `indices`
SparseOfEntries(vec, indices) ==
    SparseOf(Len(vec.items), PackInts(indices),
             PackFloats([k \in 1..Len(indices) |-> vec.items[indices[k] + 1]], Binary32, ">"))

\* SparseVector.from_float_list(vec)
SparseVector_from_float_list(vec) == SparseOfEntries(vec, NonZeroIndices(vec.items, 1))

\* SparseVector.to_database_binary()
SparseVector_to_database_binary(self) ==
    IF ~InRangeI32(self._size) THEN Raise("struct.error")
    ELSE Ok(Bytes(BytesI32(self._size) \o BytesI32(nnz(self)) \o BytesI32(0)
                  \o self._indices \o self._values))

\* 12 + 4 * count as a slice bound of a buffer of n bytes: every bound beyond
\* [-n, n] slices like the nearest end, so count is cut to where that holds
\* before it is multiplied
SplitAt(count, n) ==
    12 + 4 * (IF count > n THEN n ELSE IF count < -n - 3 THEN -n - 3 ELSE count)

\* cls(size, data[12 : at], data[at :])
SparseSplit(size, data, at) ==
    SparseVector_init(PyInt(size), Bytes(Slice(data, 12, at)), Bytes(SliceFrom(data, at)))

\* SparseVector.from_database_binary(data)
SparseVector_from_database_binary(data) ==
    IF Len(Slice(data.b, 0, 12)) # 12 THEN Raise("struct.error")
    ELSE SparseSplit(IntI32(SubSeq(data.b, 1, 4)), data.b,
                     SplitAt(IntI32(SubSeq(data.b, 5, 8)), Len(data.b)))

(***************************************************************************)
(* BasicVector: dispatch on the class, base64 import, the codec adapters   *)
(***************************************************************************)
\* cls()
New(cls) ==
    IF cls = "SparseVector" THEN SparseVector_init(None, None, None)
    ELSE DenseVector_init(cls, None)

\* self.size()
size(self) ==
    IF self.type = "SparseVector" THEN SparseVector_size(self) ELSE DenseVector_size(self)

\* self.to_float_list()
to_float_list(self) ==
    IF self.type = "SparseVector" THEN SparseVector_to_float_list(self)
    ELSE DenseVector_to_float_list(self)

\* cls.from_float_list(vec)
from_float_list(cls, vec) ==
    IF cls = "SparseVector" THEN SparseVector_from_float_list(vec)
    ELSE DenseVector_from_float_list(cls, vec)

\* self.to_database_binary()
to_database_binary(self) ==
    IF self.type = "SparseVector" THEN SparseVector_to_database_binary(self)
    ELSE DenseVector_to_database_binary(self)

\* cls.from_database_binary(data)
from_database_binary(cls, data) ==
    IF cls = "SparseVector" THEN SparseVector_from_database_binary(data)
    ELSE DenseVector_from_database_binary(cls, data)

\* cls.from_float_list(float_tuple), when unpack returned
FromFloatTuple(cls, float_tuple) ==
    IF ~IsOk(float_tuple) THEN float_tuple ELSE from_float_list(cls, Tuple(float_tuple.value))

\* unpack(f"{len(decoded_bytes) // 4}f", decoded_bytes) and on, when b64decode returned
FromDecoded(cls, decoded_bytes, order) ==
    IF ~IsOk(decoded_bytes) THEN decoded_bytes
    ELSE FromFloatTuple(cls, UnpackFloats(Len(decoded_bytes.value) \div 4,
                                          decoded_bytes.value, Binary32, order))

\* BasicVector.from_float_base64(base64_encoded), on a host of byte order `order`
BasicVector_from_float_base64(cls, base64_encoded, order) ==
    FromDecoded(cls, b64decode(base64_encoded.chars), order)

\* cls.from_float_base64(base64_encoded): Vector overrides the inherited method
from_float_base64(cls, base64_encoded, order) ==
    IF cls = "Vector" THEN Vector_from_float_base64(cls, base64_encoded)
    ELSE BasicVector_from_float_base64(cls, base64_encoded, order)

\* obj.to_database_binary(), when the expression for obj returned
WriteObject(obj) == IF ~IsOk(obj) THEN obj ELSE to_database_binary(obj.value)

\* the encoder without the test of the first list item
BasicVector__to_database_binary_AnyItem(cls, value) ==
    IF value = None THEN Ok(value)
    ELSE IF IsVector(value) THEN WriteObject(Ok(value))
    ELSE IF value.type = "list"
      THEN IF value.items # <<>> THEN WriteObject(from_float_list(cls, value))
           ELSE WriteObject(New(cls))
    ELSE Raise("ValueError")

\* cls._to_database_binary(value), the encoder registered for the kind
BasicVector__to_database_binary(cls, value) ==
    IF value = None THEN Ok(value)
    ELSE IF IsVector(value) THEN WriteObject(Ok(value))
    ELSE IF value.type = "list"
      THEN IF value.items # <<>>
             THEN IF value.items[1].type # "float" THEN Raise("ValueError")
                  ELSE WriteObject(from_float_list(cls, value))
             ELSE WriteObject(New(cls))
    ELSE Raise("ValueError")

\* the decoder reading None as no bytes
BasicVector__from_database_binary_NoNull(cls, value) ==
    from_database_binary(cls, IF value = None THEN Bytes(<<>>) ELSE value)

\* cls._from_database_binary(value), the decoder registered for the kind
BasicVector__from_database_binary(cls, value) ==
    IF value = None THEN Ok(value)
    ELSE from_database_binary(cls, value)

(***************************************************************************)
(* The values offered to the codec                                         *)
(***************************************************************************)
\* longest raw byte buffer
MaxRaw == 4

\* largest dimensionality a generated dense header declares
MaxDim == 2

\* most 4-byte words in a generated sparse payload
MaxWords == 4

\* largest entry count a generated sparse header declares
MaxNnz == 2

\* longest float list
MaxLen == 3

SeqsUpTo(S, n) == UNION {[1..k -> S] : k \in 0..n}

ByteVals == {0, 63, 128}

\* arbitrary byte buffers
RawBuffers == SeqsUpTo(ByteVals, MaxRaw)

\* 0.0, -0.0, 1.0, -2.0, -2.5, 3.5: exact at half and at single precision;
\* 4097.0: exact at single precision only; the NaN that unpacks from ffe01234
FloatVals ==
    {Float("finite", FALSE, 0, 0), Float("finite", TRUE, 0, 0), Float("finite", FALSE, 1, 0),
     Float("finite", TRUE, 1, 1), Float("finite", TRUE, 5, -1), Float("finite", FALSE, 7, -1),
     Float("finite", FALSE, 4097, 0), Float("nan", TRUE, 6296116, 0)}

FloatLists == SeqsUpTo(FloatVals, MaxLen)

\* 4-byte words of a sparse payload: 0 or 0.0, 1 or 2^-149, 1065353216 or 1.0
WordVals == {<<0, 0, 0, 0>>, <<0, 0, 0, 1>>, <<63, 128, 0, 0>>}

\* 4-byte words as indices: 0, 1, -1
IndexWords == {<<0, 0, 0, 0>>, <<0, 0, 0, 1>>, <<255, 255, 255, 255>>}

\* wire bytes of a dense kind: a header and any payload, or fewer bytes than a header
DenseWires ==
    {BytesU16(dim) \o BytesU16(reserved) \o payload :
        dim \in 0..MaxDim, reserved \in {0, 258}, payload \in RawBuffers}

\* wire bytes of the sparse kind: a header, whole words and perhaps a stray byte
SparseWires ==
    {BytesI32(dim) \o BytesI32(count) \o BytesI32(reserved) \o Concat(words) \o tail :
        dim \in {0, 2}, count \in (-MaxNnz - 3)..MaxNnz, reserved \in {0},
        words \in SeqsUpTo(WordVals, MaxWords), tail \in {<<>>, <<0>>}}

WireInputs == {Bytes(b) : b \in RawBuffers \cup DenseWires \cup SparseWires}

\* base64 texts: the encoding of any buffer, also with its padding cut off
Base64Inputs ==
    {Str(B64Encode(b)) : b \in RawBuffers}
        \cup {Str(SubSeq(B64Encode(b), 1, 3)) : b \in {r \in RawBuffers : Len(r) = 2}}

FloatListInputs == {List(v) : v \in FloatLists}

\* what else a caller may hand to the encoder
AdapterItems == {Float("finite", FALSE, 1, 0), Float("finite", FALSE, 0, 0), PyInt(2), Str(<<"a">>), None}

OtherInputs ==
    {List(v) : v \in SeqsUpTo(AdapterItems, 2)}
        \cup {Tuple(v) : v \in SeqsUpTo({Float("finite", FALSE, 1, 0)}, 2)}
        \cup {None, PyInt(1), Str(<<"A", "A", "=", "=">>), Float("finite", FALSE, 1, 0)}

\* the arguments of SparseVector(size, indices, values), any of them possibly absent
SparseBuffers ==
    {Concat(words) : words \in SeqsUpTo(IndexWords, 2)} \cup {<<0, 63>>, <<0, 0, 0, 1, 0>>}

SparseArgs ==
    {[type |-> "args", size |-> sz, indices |-> ix, values |-> vs] :
        sz \in {None, PyInt(-1), PyInt(0), PyInt(1), PyInt(2)},
        ix \in {None} \cup {Bytes(b) : b \in SparseBuffers},
        vs \in {None} \cup {Bytes(b) : b \in SparseBuffers \cup {<<63, 128, 0, 0>>}}}

Inputs == WireInputs \cup Base64Inputs \cup FloatListInputs \cup OtherInputs \cup SparseArgs

(***************************************************************************)
(* The state: the host's byte order, the value offered, and the calls made *)
(* so far, each [op, cls, arg, ret]                                        *)
(***************************************************************************)
VARIABLES host, input, log

vars == <<host, input, log>>

Call(op, cls, arg, ret) == [op |-> op, cls |-> cls, arg |-> arg, ret |-> ret]

CreationOps == {"__init__", "from_float_list", "from_float_base64", "from_database_binary"}

\* the vector the first call created, when it created one
HasVector == Len(log) >= 1 /\ log[1].op \in CreationOps /\ IsOk(log[1].ret)

x == log[1].ret.value

Init ==
    /\ host \in {"little", "big"}
    /\ input \in Inputs
    /\ log = <<>>

Do(call) == /\ log' = Append(log, call)
            /\ UNCHANGED <<host, input>>

\* Vector(data), HalfVector(data), also with no argument
ConstructDense(cls) ==
    /\ log = <<>>
    /\ cls \in DenseKinds
    /\ input.type \in {"bytes", "NoneType"}
    /\ Do(Call("__init__", cls, input, DenseVector_init(cls, input)))

\* SparseVector(size, indices, values)
ConstructSparse ==
    /\ log = <<>>
    /\ input.type = "args"
    /\ Do(Call("__init__", "SparseVector", input,
               SparseVector_init(input.size, input.indices, input.values)))

\* cls.from_float_list(input)
FromFloatList(cls) ==
    /\ log = <<>>
    /\ input.type \in {"list", "tuple"}
    /\ Do(Call("from_float_list", cls, input, from_float_list(cls, input)))

\* a call of cls.from_float_base64(text)
CallFromFloatBase64(cls, text) ==
    Do(Call("from_float_base64", cls, text, from_float_base64(cls, text, host)))

\* cls.from_float_base64(input)
FromFloatBase64(cls) ==
    /\ log = <<>>
    /\ input.type = "str"
    /\ CallFromFloatBase64(cls, input)

\* cls.from_float_base64 of the raw float32 buffer of a float list, which the
\* caller packs in the host's byte order and encodes as base64
FromFloatBase64OfList(cls) ==
    /\ log = <<>>
    /\ input \in FloatListInputs
    /\ CallFromFloatBase64(cls, Str(B64Encode(PackFloats(input.items, Binary32, host).value)))

\* a call of cls.from_database_binary(data)
CallFromDatabaseBinary(cls, data) ==
    Do(Call("from_database_binary", cls, data, from_database_binary(cls, data)))

\* cls.from_database_binary(input)
FromDatabaseBinary(cls) ==
    /\ log = <<>>
    /\ input.type = "bytes"
    /\ CallFromDatabaseBinary(cls, input)

\* x.to_database_binary()
ToDatabaseBinary ==
    /\ Len(log) = 1 /\ HasVector
    /\ Do(Call("to_database_binary", x.type, x, to_database_binary(x)))

\* the bytes x wrote, read back by x's class
ReadBack ==
    /\ Len(log) = 2 /\ log[2].op = "to_database_binary" /\ IsOk(log[2].ret)
    /\ CallFromDatabaseBinary(x.type, log[2].ret.value)

\* x.to_float_list()
ToFloatList ==
    /\ Len(log) = 1 /\ HasVector
    /\ Do(Call("to_float_list", x.type, x, to_float_list(x)))

\* the encoder of kind cls, offered the input as it is
Encode(cls) ==
    /\ log = <<>>
    /\ input.type # "args"
    /\ Do(Call("_to_database_binary", cls, input, BasicVector__to_database_binary(cls, input)))

\* the encoder of kind cls, offered the vector x
EncodeVector(cls) ==
    /\ Len(log) = 1 /\ HasVector
    /\ Do(Call("_to_database_binary", cls, x, BasicVector__to_database_binary(cls, x)))

\* a call of cls._from_database_binary(value)
CallDecoder(cls, value) ==
    Do(Call("_from_database_binary", cls, value, BasicVector__from_database_binary(cls, value)))

\* the decoder of kind cls, offered the input
Decode(cls) ==
    /\ log = <<>>
    /\ input.type \in {"bytes", "NoneType"}
    /\ CallDecoder(cls, input)

\* the decoder of the same kind, offered what the encoder returned (a stored
\* value fetched again)
Fetch ==
    /\ Len(log) >= 1 /\ Len(log) <= 2
    /\ log[Len(log)].op = "_to_database_binary" /\ IsOk(log[Len(log)].ret)
    /\ CallDecoder(log[Len(log)].cls, log[Len(log)].ret.value)

Next ==
    \/ \E cls \in DenseKinds : ConstructDense(cls)
    \/ ConstructSparse
    \/ \E cls \in Kinds : FromFloatList(cls)
    \/ \E cls \in Kinds : FromFloatBase64(cls)
    \/ \E cls \in Kinds : FromFloatBase64OfList(cls)
    \/ \E cls \in Kinds : FromDatabaseBinary(cls)
    \/ ToDatabaseBinary
    \/ ReadBack
    \/ ToFloatList
    \/ \E cls \in Kinds : Encode(cls)
    \/ \E cls \in Kinds : EncodeVector(cls)
    \/ \E cls \in Kinds : Decode(cls)
    \/ Fetch

Spec == Init /\ [][Next]_vars

(***************************************************************************)
(* Vocabulary of the properties                                            *)
(***************************************************************************)
\* element for element equal, as Python compares two lists of floats
ListEq(a, b) == Len(a) = Len(b) /\ \A i \in 1..Len(a) : FloatEq(a[i], b[i])

\* x is a finite value of the format: no rounding is needed to store it
Representable(v, fmt) ==
    /\ v.cls = "finite"
    /\ \/ v.sig = 0
       \/ /\ v.ex + BitLen(v.sig) - 1 <= fmt.bias
          /\ v.ex >= (IF v.ex + BitLen(v.sig) - 1 >= EMin(fmt)
                        THEN v.ex + BitLen(v.sig) - 1 ELSE EMin(fmt)) - fmt.man

AllRepresentable(items, fmt) == \A i \in 1..Len(items) : Representable(items[i], fmt)

NonZeroCount(items) == Cardinality({i \in 1..Len(items) : FloatNonZero(items[i])})

\* the errors the specification calls FormatError
FormatError == {"ValueError", "struct.error"}

\* the first call, when it is a call of op
First(op) == Len(log) >= 1 /\ log[1].op = op

(***************************************************************************)
(* C2  Float-list round trip.  For a list v of floats that the kind stores *)
(* without rounding, kind.from_float_list(v).to_float_list() returns a     *)
(* list equal to v element for element and of the same length; for the     *)
(* sparse kind the vector between has size() = len(v) and nnz() = the      *)
(* number of non-zero elements of v.                                       *)
(***************************************************************************)
C2_FloatListRoundTrip ==
    (/\ First("from_float_list")
     /\ input \in FloatListInputs
     /\ AllRepresentable(input.items, ItemFormat(log[1].cls)))
    => /\ IsOk(log[1].ret)
       /\ x.type = log[1].cls
       /\ x.type = "SparseVector" =>
            (size(x) = Len(input.items) /\ nnz(x) = NonZeroCount(input.items))
       /\ (Len(log) = 2 /\ log[2].op = "to_float_list") =>
            /\ IsOk(log[2].ret)
            /\ log[2].ret.value.type = "list"
            /\ Len(log[2].ret.value.items) = Len(input.items)
            /\ ListEq(log[2].ret.value.items, input.items)

\* the sparse vector of [0.0, 3.5, -2.0] has been turned back into a list
C2_Witness ==
    /\ First("from_float_list") /\ log[1].cls = "SparseVector"
    /\ input = List(<<Float("finite", FALSE, 0, 0), Float("finite", FALSE, 7, -1),
                      Float("finite", TRUE, 1, 1)>>)
    /\ Len(log) = 2 /\ log[2].op = "to_float_list"
    /\ nnz(x) = 2 /\ size(x) = 3
    /\ log[2].ret = Ok(input)

(***************************************************************************)
(* C3  Dense decode length check.  For both dense kinds and every byte     *)
(* string, from_database_binary returns a vector exactly when the string   *)
(* is 4 + bytes_per_item * (the dimensionality its first two bytes         *)
(* declare) bytes long; otherwise it fails with a FormatError.  On success *)
(* the vector's buffer is bytes[4:], its size() is the declared            *)
(* dimensionality, and the reserved field does not change the result.      *)
(***************************************************************************)
WithReservedZero(b) == [i \in 1..Len(b) |-> IF i \in {3, 4} THEN 0 ELSE b[i]]

C3_DenseDecodeLength ==
    (/\ Len(log) = 1 /\ First("from_database_binary")
     /\ log[1].cls \in DenseKinds
     /\ log[1].arg = input)
    => /\ IsOk(log[1].ret) <=>
            (/\ Len(input.b) >= 4
             /\ Len(input.b) = 4 + bytes_per_item(log[1].cls) * (input.b[1] * 256 + input.b[2]))
       /\ ~IsOk(log[1].ret) => log[1].ret.raised \in FormatError
       /\ IsOk(log[1].ret) =>
            /\ x.type = log[1].cls
            /\ x._data = SubSeq(input.b, 5, Len(input.b))
            /\ size(x) = input.b[1] * 256 + input.b[2]
            /\ from_database_binary(log[1].cls, Bytes(WithReservedZero(input.b))) = log[1].ret

\* a Vector header declaring one item, with a non-zero reserved field and 4 item bytes
C3_Witness ==
    /\ Len(log) = 1 /\ First("from_database_binary") /\ log[1].cls = "Vector"
    /\ input = Bytes(<<0, 1, 1, 2, 63, 128, 0, 0>>)
    /\ IsOk(log[1].ret) /\ size(x) = 1

(***************************************************************************)
(* C5  Sparse construction.  SparseVector(size, indices, values) fails     *)
(* with a FormatError when the two buffers imply different entry counts    *)
(* and when only some of the three arguments are given; every sparse       *)
(* vector, however created, has indices and values buffers of one length,  *)
(* which holds nnz() entries; SparseVector() has size 0 and nnz 0.         *)
(***************************************************************************)
Given(arg) == arg # None

C5_SparseConstruction ==
    /\ (First("__init__") /\ log[1].cls = "SparseVector") =>
         /\ (Given(input.size) /\ Given(input.indices) /\ Given(input.values)) =>
              /\ IsOk(log[1].ret) <=> Len(input.indices.b) = Len(input.values.b)
              /\ Len(input.indices.b) \div 4 # Len(input.values.b) \div 4 => ~IsOk(log[1].ret)
         /\ ({Given(input.size), Given(input.indices), Given(input.values)} = {TRUE, FALSE}) =>
              ~IsOk(log[1].ret)
         /\ ~IsOk(log[1].ret) => log[1].ret.raised = "ValueError"
         /\ (~Given(input.size) /\ ~Given(input.indices) /\ ~Given(input.values)) =>
              (IsOk(log[1].ret) /\ size(x) = 0 /\ nnz(x) = 0)
    /\ (HasVector /\ x.type = "SparseVector") =>
         /\ Len(x._indices) = Len(x._values)
         /\ nnz(x) = Len(x._indices) \div 4
         /\ nnz(x) = Len(x._values) \div 4

\* two index entries offered with one value entry: the constructor has raised
C5_Witness ==
    /\ First("__init__") /\ log[1].cls = "SparseVector"
    /\ Given(input.size) /\ Given(input.indices) /\ Given(input.values)
    /\ Len(input.indices.b) = 8 /\ Len(input.values.b) = 4
    /\ log[1].ret = Raise("ValueError")

(***************************************************************************)
(* The calls of the two adapters in the log                                *)
(***************************************************************************)
EncoderCalls == {log[i] : i \in {j \in 1..Len(log) : log[j].op = "_to_database_binary"}}

DecoderCalls == {log[i] : i \in {j \in 1..Len(log) : log[j].op = "_from_database_binary"}}

AllFloats(items) == \A i \in 1..Len(items) : items[i].type = "float"

(***************************************************************************)
(* C4 as claimed.  The encoder of every kind fails with its type error,    *)
(* returning no bytes, whenever it is offered (a) a non-empty sequence     *)
(* whose elements are not floats or (b) a value that is neither a vector,  *)
(* a sequence of floats nor the absent marker; and it never fails this way *)
(* for a sequence of floats.                                               *)
(***************************************************************************)
C4_AdapterTypeRejection ==
    \A c \in EncoderCalls :
        /\ (c.arg.type = "list" /\ c.arg.items # <<>> /\ ~AllFloats(c.arg.items)) =>
             c.ret = Raise("ValueError")
        /\ (c.arg # None /\ ~IsVector(c.arg) /\ c.arg.type # "list") =>
             c.ret = Raise("ValueError")
        /\ (c.arg.type = "list" /\ AllFloats(c.arg.items)) => c.ret.raised # "ValueError"

(***************************************************************************)
(* C4 amended.  The encoder of every kind fails with its type error        *)
(* (ValueError), returning no bytes, exactly when it is offered (a) a      *)
(* non-empty list whose first element is not a float or (b) a value that   *)
(* is neither a vector, a list nor the absent marker.                      *)
(***************************************************************************)
C4_FirstItemRejection ==
    \A c \in EncoderCalls :
        /\ c.ret.raised = "ValueError" <=>
             \/ c.arg.type = "list" /\ c.arg.items # <<>> /\ c.arg.items[1].type # "float"
             \/ c.arg # None /\ ~IsVector(c.arg) /\ c.arg.type # "list"
        /\ c.ret.raised = "ValueError" => c.ret.value = None

\* the encoder was offered a list that starts with an integer and has raised
C4_Witness ==
    /\ First("_to_database_binary")
    /\ input = List(<<PyInt(2), Float("finite", FALSE, 1, 0)>>)
    /\ log[1].ret = Raise("ValueError")

(***************************************************************************)
(* C9  Adapter dispatch.  The encoder of kind K returns the absent marker  *)
(* for an absent value, value.to_database_binary() for a vector,           *)
(* K.from_float_list(v).to_database_binary() for a non-empty list of       *)
(* floats, and for an empty list the encoding of K's empty vector: 4 zero  *)
(* bytes for a dense kind, 12 for the sparse kind.  The decoder of K       *)
(* returns the absent marker for an absent value and otherwise what        *)
(* K.from_database_binary returns or raises.                               *)
(***************************************************************************)
Zeros(n) == [i \in 1..n |-> 0]

C9_AdapterDispatch ==
    /\ \A c \in EncoderCalls :
         /\ c.arg = None => c.ret = Ok(None)
         /\ IsVector(c.arg) => c.ret = to_database_binary(c.arg)
         /\ (c.arg.type = "list" /\ c.arg.items # <<>> /\ AllFloats(c.arg.items)) =>
              /\ IsOk(from_float_list(c.cls, c.arg))
              /\ c.ret = to_database_binary(from_float_list(c.cls, c.arg).value)
         /\ c.arg = List(<<>>) =>
              /\ size(New(c.cls).value) = 0
              /\ c.ret = to_database_binary(New(c.cls).value)
              /\ c.ret = Ok(Bytes(Zeros(IF c.cls = "SparseVector" THEN 12 ELSE 4)))
    /\ \A c \in DecoderCalls :
         /\ c.arg = None => c.ret = Ok(None)
         /\ c.arg # None => c.ret = from_database_binary(c.cls, c.arg)

\* the sparse encoder was offered an empty list, and its 12 zero bytes were fetched again
C9_Witness ==
    /\ Len(log) = 2 /\ First("_to_database_binary") /\ log[1].cls = "SparseVector"
    /\ input = List(<<>>)
    /\ log[1].ret = Ok(Bytes(Zeros(12)))
    /\ log[2].op = "_from_database_binary"
    /\ IsOk(log[2].ret) /\ size(log[2].ret.value) = 0

(***************************************************************************)
(* C1  Wire round trip.  Every vector that exists encodes to its wire      *)
(* form, and decoding that wire form with the same kind yields a vector    *)
(* equal to the original.                                                  *)
(***************************************************************************)
C1_WireRoundTrip ==
    /\ (Len(log) >= 2 /\ HasVector /\ log[2].op = "to_database_binary") => IsOk(log[2].ret)
    /\ (Len(log) = 3 /\ HasVector /\ log[3].op = "from_database_binary") =>
         /\ IsOk(log[3].ret)
         /\ log[3].ret.value = x

(***************************************************************************)
(* C6  Dense buffer invariant.  The byte buffer of every dense vector that *)
(* exists has a length that is a multiple of the element width, and the    *)
(* dimensionality is that length divided by the width.                     *)
(***************************************************************************)
C6_DenseBufferInvariant ==
    (HasVector /\ x.type \in DenseKinds) =>
        /\ Len(x._data) % bytes_per_item(x.type) = 0
        /\ DenseVector_size(x) * bytes_per_item(x.type) = Len(x._data)

(***************************************************************************)
(* C7  Malformed sparse wire data.  Decoding sparse wire data either fails *)
(* with a format error or yields a vector whose number of stored entries   *)
(* is the count declared in the header, with the payload being exactly     *)
(* that many indices followed by that many values.                         *)
(***************************************************************************)
C7_SparseDecode ==
    (First("from_database_binary") /\ log[1].cls = "SparseVector") =>
        \/ log[1].ret.raised \in FormatError
        \/ /\ IsOk(log[1].ret)
           /\ Len(input.b) >= 12
           /\ nnz(x) = IntI32(Slice(input.b, 4, 8))
           /\ Len(input.b) = 12 + 8 * nnz(x)
           /\ x._indices = Slice(input.b, 12, 12 + 4 * nnz(x))
           /\ x._values = SliceFrom(input.b, 12 + 4 * nnz(x))

(***************************************************************************)
(* C8  Base64 import.  For the single-precision kind, importing the base64 *)
(* text of a float32 array in the host's byte order gives the same outcome *)
(* as the generic unpack-and-rebuild import, and the vector it yields      *)
(* reads back as the floats that were exported.                            *)
(***************************************************************************)
C8_Base64Import ==
    (First("from_float_base64") /\ log[1].cls = "Vector") =>
        /\ log[1].ret = BasicVector_from_float_base64("Vector", log[1].arg, host)
        /\ (/\ input \in FloatListInputs /\ AllRepresentable(input.items, Binary32)
            /\ Len(log) = 2 /\ log[2].op = "to_float_list") =>
             /\ IsOk(log[2].ret)
             /\ ListEq(log[2].ret.value.items, input.items)

(***************************************************************************)
(* C10  Sparse index invariant.  The stored indices of every sparse vector *)
(* that exists are strictly increasing and lie in [0, size), and the       *)
(* vector reads back as a list of length size holding each stored value at *)
(* its index and zero everywhere else.                                     *)
(***************************************************************************)
StoredAt(ix, p) == {k \in 1..Len(ix) : ix[k] = p}

C10_SparseIndexInvariant ==
    (HasVector /\ x.type = "SparseVector") =>
        /\ IsOk(UnpackInts(nnz(x), x._indices))
        /\ \A k \in 1..nnz(x) :
             /\ UnpackInts(nnz(x), x._indices).value[k] >= 0
             /\ UnpackInts(nnz(x), x._indices).value[k] < x._size
             /\ k > 1 => UnpackInts(nnz(x), x._indices).value[k - 1]
                           < UnpackInts(nnz(x), x._indices).value[k]
        /\ (Len(log) = 2 /\ log[2].op = "to_float_list") =>
             /\ IsOk(log[2].ret)
             /\ Len(log[2].ret.value.items) = x._size
             /\ \A p \in 1..x._size :
                  StoredAt(UnpackInts(nnz(x), x._indices).value, p - 1) = {} =>
                      FloatEq(log[2].ret.value.items[p], Float("finite", FALSE, 0, 0))

====
